---- MODULE Spec2Model ----
(***************************************************************************)
(* Tree-structured multi-GPU gradient synchronisation of                   *)
(* src/caffe/parallel.cpp: DevicePair::compute (topology pairing),         *)
(* P2PSync::run (tree construction and thread start) and the per-step      *)
(* protocol of P2PSync::on_start / P2PSync::on_gradients_ready.            *)
(***************************************************************************)
EXTENDS Integers, Sequences, FiniteSets, Bags, TLC

\* Longest device list handed to DevicePair::compute.
MaxDevices == 4

\* "No parent": DevicePair(-1, d) in the pair list, parent_ == NULL in a worker.
NoParent == 0 - 1

VARIABLES
  devices,    \* compute: the input list (vector<int> devices)
  board,      \* cudaGetDeviceProperties: device -> board group, 0 = not a multi-GPU board
  access,     \* cudaDeviceCanAccessPeer: the ordered device pairs that answer 1
  remaining,  \* compute: vector<int> remaining
  pairs,      \* compute: *pairs, a sequence of DevicePair
  pc,         \* compute: position in the function
  failed      \* compute: the fatal check that fired, "none" while none has

pairVars == <<devices, board, access, remaining, pairs, pc, failed>>

VARIABLES
  rootDevice, \* run: root->param().device_id()
  syncs,      \* run: vector<shared_ptr<P2PSync> > syncs; per slot built, device, parent_
  children,   \* P2PSync::children_ of each slot, in push_back order
  attempts,   \* run: the outer loop counter of the construction loop
  ri,         \* run: the inner loop index i (1-based), and the index of the start/stop loops
  rpc,        \* run: position in the function
  nsteps,     \* max_iter - initial_iter_: the steps every solver runs
  stop,       \* per worker: StopInternalThread has signalled its thread
  order,      \* run: the order in which the vector syncs destroys its elements
  destroyed,  \* per slot: ~P2PSync has run and the object is freed
  dangling    \* a destructor has read parent_->solver_ of a destroyed worker

runVars == <<rootDevice, syncs, children, attempts, ri, rpc, nsteps,
             stop, order, destroyed, dangling>>

VARIABLES
  wpc,        \* per worker: position of its thread in Solver::Step and the two hooks
  iter,       \* per worker: number of steps entered
  ci,         \* per worker: the loop index over children_ (0-based count done)
  queue,      \* P2PSync::queue_ of each worker: tokens [from, step]
  data,       \* GPUParams::data_ of each worker (parameter values, as a version)
  diff,       \* GPUParams::diff_ of each worker (gradient buffer)
  grads,      \* P2PSync::parent_grads_ of each worker (staging buffer on the parent)
  got,        \* per worker: the token its last on_start popped
  bcast,      \* per worker: the step of the last parent copy completed into data_
  wroteLocal, \* some non-root solver has written its own data_
  reading     \* per worker: the children whose parent_grads_ its issued adds read

syncVars == <<wpc, iter, ci, queue, data, diff, grads, got, bcast, wroteLocal,
              reading>>

VARIABLES
  blobs,      \* apply_buffers: blobs[i]->count() of the tensor list
  total_size, \* apply_buffers: the buffer size handed in (size_)
  op,         \* apply_buffers: the Op
  bi,         \* apply_buffers: the loop index i (0-based count done)
  ptr,        \* apply_buffers: ptr - buffer
  placed,     \* apply_buffers: the offset each tensor handled so far was given
  buffer,     \* the mirror's buffer: per element the tensor copied in, 0 for none
  overrun,    \* a copy has written past the end of the buffer
  mpc         \* apply_buffers: position in the function

mirrorVars == <<blobs, total_size, op, bi, ptr, placed, buffer, overrun, mpc>>

VARIABLES
  rerun       \* a second call of compute on the same list: its remaining,
              \* pairs, position and failed check

rerunVars == <<rerun>>

vars == <<pairVars, runVars, syncVars, mirrorVars, rerunVars>>

----------------------------------------------------------------------------
(* Plain helpers on sequences and sets.                                    *)

Range(s) == {s[k] : k \in 1..Len(s)}

Distinct(s) == \A a, b \in 1..Len(s) : a # b => s[a] # s[b]

\* Erase as an off-by-one slip would have it: the element before position j
\* goes instead (for j = i + 1 that is the parent side of the match).
EraseBefore(s, j) == [k \in 1..(Len(s) - 1) |-> IF k < j - 1 THEN s[k] ELSE s[k + 1]]

\* vector::erase(begin() + (j-1)): drop the element at 1-based position j.
Erase(s, j) == [k \in 1..(Len(s) - 1) |-> IF k < j THEN s[k] ELSE s[k + 1]]

\* The root pair put at the end of the list instead of the front.
InsertBack(s, x) == Append(s, x)

\* vector::insert(begin(), x)
InsertFront(s, x) == <<x>> \o s

Max(S) == CHOOSE m \in S : \A x \in S : x <= m

----------------------------------------------------------------------------
(* DevicePair::compute                                                     *)

\* A pair with its two sides taken the wrong way round.
DevicePairSwapped(p, d) == [parent |-> d, device |-> p]

DevicePair(p, d) == [parent |-> p, device |-> d]

\* The test with a result kept across calls: peer access is also reported
\* for two devices that an earlier call has paired.
CompatibleCached(kind, a, b, brd, acc) ==
  CASE kind = "board" -> brd[a] # 0 /\ brd[b] # 0 /\ brd[a] = brd[b]
    [] kind = "p2p"   -> \/ <<a, b>> \in acc
                         \/ \E k \in 1..Len(pairs) : pairs[k] = DevicePair(a, b)
    [] OTHER          -> TRUE

\* The test one pass applies to remaining[i], remaining[j].
Compatible(kind, a, b, brd, acc) ==
  CASE kind = "board" -> brd[a] # 0 /\ brd[b] # 0 /\ brd[a] = brd[b]
    [] kind = "p2p"   -> <<a, b>> \in acc
    [] OTHER          -> TRUE

\* The inner j loop: the first position j > i whose device is compatible
\* with remaining[i], or 0 when the loop runs off the end.
FirstPartner(kind, rem, i, brd, acc) ==
  LET J == {j \in (i + 1)..Len(rem) : Compatible(kind, rem[i], rem[j], brd, acc)}
  IN  IF J = {} THEN 0 ELSE CHOOSE j \in J : \A k \in J : j <= k

\* A pass that erases both matched devices, the parent side too.
RECURSIVE PassFromErasesBoth(_, _, _, _, _, _)
PassFromErasesBoth(kind, rem, prs, i, brd, acc) ==
  IF i > Len(rem) THEN [remaining |-> rem, pairs |-> prs]
  ELSE LET j == FirstPartner(kind, rem, i, brd, acc)
       IN  IF j = 0
           THEN PassFromErasesBoth(kind, rem, prs, i + 1, brd, acc)
           ELSE PassFromErasesBoth(kind, Erase(Erase(rem, j), i),
                                   Append(prs, DevicePair(rem[i], rem[j])),
                                   i, brd, acc)

\* One pairing pass from outer index i on (1-based): on a match the pair
\* (remaining[i], remaining[j]) is appended, position j is erased, the inner
\* loop breaks and the outer loop goes on with i + 1.
RECURSIVE PassFrom(_, _, _, _, _, _)
PassFrom(kind, rem, prs, i, brd, acc) ==
  IF i > Len(rem) THEN [remaining |-> rem, pairs |-> prs]
  ELSE LET j == FirstPartner(kind, rem, i, brd, acc)
       IN  IF j = 0
           THEN PassFrom(kind, rem, prs, i + 1, brd, acc)
           ELSE PassFrom(kind, Erase(rem, j),
                         Append(prs, DevicePair(rem[i], rem[j])),
                         i + 1, brd, acc)

Pass(kind, rem, prs, brd, acc) == PassFrom(kind, rem, prs, 1, brd, acc)

\* The post-condition checks at the end of compute, in the order the code
\* makes them; "none" when all pass.
PostCheck(prs, devs) ==
  IF Len(prs) # Len(devs) THEN "size"
  ELSE IF \E k \in 1..Len(prs) : prs[k].parent = prs[k].device THEN "self"
  ELSE IF \E a, b \in 1..Len(prs) : a < b /\ prs[a].device = prs[b].device
       THEN "duplicate"
  ELSE "none"

\* Device lists up to renaming of the ids (ids are only compared for
\* equality): the first device is 0 and each later one is an id already
\* used or the next unused one.  <<0, 1, ..., n-1>> is the list of n
\* distinct devices; every other list repeats an id, and those are taken up
\* to one device short of the longest list.
DeviceLists ==
  UNION {{s \in [1..n -> 0..(n - 1)] :
            /\ s[1] = 0
            /\ \A k \in 2..n : s[k] <= 1 + Max({s[m] : m \in 1..(k - 1)})
            /\ n = MaxDevices => Distinct(s)}
         : n \in 1..MaxDevices}

\* Board groups: 0 is "not a multi-GPU board"; with at most MaxDevices
\* devices at most MaxDevices \div 2 groups can hold two of them.
BoardGroups == 0..(MaxDevices \div 2)

\* The peer-access queries compute can make on a list: (remaining[i],
\* remaining[j]) with i < j, and remaining keeps the input order.
Queries(devs) ==
  {<<devs[q[1]], devs[q[2]]>> :
     q \in {q \in (1..Len(devs)) \X (1..Len(devs)) : q[1] < q[2]}}

\* No mirror operation is under way.
MirrorNotEntered ==
  /\ blobs = <<>>
  /\ total_size = 0
  /\ op = "none"
  /\ bi = 0
  /\ ptr = 0
  /\ placed = <<>>
  /\ buffer = <<>>
  /\ overrun = FALSE
  /\ mpc = "off"

\* compute is not called a second time.
RerunNotEntered == rerun = [remaining |-> <<>>, pairs |-> <<>>, pc |-> "off", failed |-> "none"]

\* compute on its own: run() has not been entered, no worker exists.
RunNotEntered ==
  /\ rootDevice = NoParent
  /\ syncs = <<>>
  /\ children = <<>>
  /\ attempts = 0
  /\ ri = 0
  /\ rpc = "off"
  /\ nsteps = 0
  /\ stop = <<>>
  /\ order = "none"
  /\ destroyed = <<>>
  /\ dangling = FALSE
  /\ wpc = <<>>
  /\ iter = <<>>
  /\ ci = <<>>
  /\ queue = <<>>
  /\ data = <<>>
  /\ diff = <<>>
  /\ grads = <<>>
  /\ got = <<>>
  /\ bcast = <<>>
  /\ wroteLocal = FALSE
  /\ reading = <<>>

PairInit ==
  /\ devices \in DeviceLists
  /\ board \in [Range(devices) -> BoardGroups]
  /\ access \in SUBSET Queries(devices)
  /\ remaining = devices
  /\ pairs = <<>>
  /\ pc = "board"
  /\ failed = "none"
  /\ RunNotEntered
  /\ MirrorNotEntered
  /\ RerunNotEntered

PairByBoard ==
  /\ pc = "board"
  /\ LET r == Pass("board", remaining, pairs, board, access)
     IN  remaining' = r.remaining /\ pairs' = r.pairs
  /\ pc' = "p2p"
  /\ UNCHANGED <<devices, board, access, failed>>
  /\ UNCHANGED <<runVars, syncVars, mirrorVars, rerunVars>>

PairByP2P ==
  /\ pc = "p2p"
  /\ LET r == Pass("p2p", remaining, pairs, board, access)
     IN  remaining' = r.remaining /\ pairs' = r.pairs
  /\ pc' = "rest"
  /\ UNCHANGED <<devices, board, access, failed>>
  /\ UNCHANGED <<runVars, syncVars, mirrorVars, rerunVars>>

PairRemaining ==
  /\ pc = "rest"
  /\ LET r == Pass("rest", remaining, pairs, board, access)
     IN  remaining' = r.remaining /\ pairs' = r.pairs
  /\ pc' = "root"
  /\ UNCHANGED <<devices, board, access, failed>>
  /\ UNCHANGED <<runVars, syncVars, mirrorVars, rerunVars>>

\* CHECK_EQ(remaining.size(), 1), then the root pair goes to the front.
InsertRoot ==
  /\ pc = "root"
  /\ IF Len(remaining) = 1
     THEN /\ pairs' = InsertFront(pairs, DevicePair(NoParent, remaining[1]))
          /\ pc' = "post"
          /\ failed' = failed
     ELSE /\ pairs' = pairs
          /\ pc' = "aborted"
          /\ failed' = "remaining"
  /\ UNCHANGED <<devices, board, access, remaining>>
  /\ UNCHANGED <<runVars, syncVars, mirrorVars, rerunVars>>

CheckPairs ==
  /\ pc = "post"
  /\ failed' = PostCheck(pairs, devices)
  /\ pc' = IF failed' = "none" THEN "returned" ELSE "aborted"
  /\ UNCHANGED <<devices, board, access, remaining, pairs>>
  /\ UNCHANGED <<runVars, syncVars, mirrorVars, rerunVars>>

PairNext ==
  \/ PairByBoard
  \/ PairByP2P
  \/ PairRemaining
  \/ InsertRoot
  \/ CheckPairs

Spec == PairInit /\ [][PairNext]_vars

----------------------------------------------------------------------------
(* Claims about DevicePair::compute, checked under Spec.                   *)

\* The position compute is at is one of the three pairing passes.
InPass == pc \in {"board", "p2p", "rest"}

\* The pairs a pass step appends (the passes only append).
NewPairs == {pairs'[k] : k \in (Len(pairs) + 1)..Len(pairs')}

Sides(p) == {p.parent, p.device}

\* Number of parent links from device d up to the pair without a parent,
\* cut off after fuel links.
RECURSIVE Hops(_, _, _)
Hops(prs, d, fuel) ==
  LET P == {k \in 1..Len(prs) : prs[k].device = d}
  IN  IF P = {} \/ fuel = 0 THEN 0
      ELSE LET p == prs[CHOOSE k \in P : TRUE].parent
           IN  IF p = NoParent THEN 0 ELSE 1 + Hops(prs, p, fuel - 1)

Depth(prs) == Max({Hops(prs, prs[k].device, Len(prs)) : k \in 1..Len(prs)} \cup {0})

\* What C1 promises of a returned pair list.
PairListComplete ==
  /\ Len(pairs) = Len(devices)
  /\ Cardinality({k \in 1..Len(pairs) : pairs[k].parent = NoParent}) = 1
  /\ \A d \in Range(devices) :
       Cardinality({k \in 1..Len(pairs) : pairs[k].device = d}) = 1
  /\ Len(remaining) = 1

\* C1 (as claimed): for every list of N >= 2 distinct devices and every
\* board/link relation compute completes without a fatal check and returns
\* N pairs, one of them the root, the device fields being the input devices
\* once each.
C1_AlwaysCompletes ==
  (Len(devices) >= 2 /\ Distinct(devices)) =>
    /\ pc # "aborted"
    /\ pc = "returned" => PairListComplete

\* 4 distinct devices, no two on one board, no two linked.
FourUnrelated ==
  /\ Len(devices) = 4
  /\ Distinct(devices)
  /\ \A a, b \in Range(devices) : a # b => ~Compatible("board", a, b, board, access)
  /\ access = {}

\* C7 (as claimed): 4 devices without a shared board or a direct link are
\* paired two by two in the fallback pass, the two that remain are paired
\* later, and compute returns 4 pairs with one root and depth <= 2.
C7_FourUnrelatedReturn ==
  FourUnrelated =>
    /\ pc # "aborted"
    /\ pc = "returned" => (PairListComplete /\ Depth(pairs) <= 2)

\* C8 (as claimed): a pass removes both matched devices from remaining, so
\* no side of a pair of one pass is a side of a pair of a later pass.
C8_BothRemoved ==
  [][(InPass /\ Distinct(devices)) =>
       \A p \in NewPairs :
          /\ Sides(p) \cap Range(remaining') = {}
          /\ \A k \in 1..Len(pairs) : Sides(p) \cap Sides(pairs[k]) = {}]_vars

\* C8 (amended): a pass removes only the second device of a match (the
\* pair's device side) from remaining and keeps the first (the parent side);
\* the device side of a pair is on no side of any pair made afterwards, and
\* within one pass no device is on two pairs.
C8_ChildRemoved ==
  [][(InPass /\ Distinct(devices)) =>
       /\ \A p \in NewPairs :
            /\ p.device \notin Range(remaining')
            /\ p.parent \in Range(remaining')
            /\ \A k \in 1..Len(pairs) : pairs[k].device \notin Sides(p)
       /\ \A p, q \in NewPairs : p # q => Sides(p) \cap Sides(q) = {}
       /\ Len(remaining') + Len(pairs') = Len(devices)]_vars

\* A later pass has paired the parent side of an earlier pair again.
C8_Witness ==
  /\ pc = "root"
  /\ Distinct(devices)
  /\ \E a, b \in 1..Len(pairs) : a < b /\ pairs[a].parent \in Sides(pairs[b])

\* C9: for distinct device ids, once compute is past the check that one
\* device remains, the pair list is as long as the device list, no pair is
\* its own parent and no two pairs have the same device: none of the
\* post-condition checks fires.
C9_PostChecksHold ==
  Distinct(devices) =>
    /\ failed \in {"none", "remaining"}
    /\ pc \in {"post", "returned"} =>
         /\ Len(pairs) = Len(devices)
         /\ \A k \in 1..Len(pairs) : pairs[k].parent # pairs[k].device
         /\ \A a, b \in 1..Len(pairs) : a # b => pairs[a].device # pairs[b].device

\* compute has returned for a list of 3 distinct devices.
C9_Witness ==
  pc = "returned" /\ Distinct(devices) /\ Len(devices) = 3 /\ Len(pairs) = 3

\* The other half of C9: with a repeated id a post-condition check fires.
C9_RepeatedIdFires ==
  ~Distinct(devices) /\ pc = "aborted" /\ failed \in {"self", "duplicate"}

----------------------------------------------------------------------------
(* P2PSync::run: the pair list, then the construction loop.                *)

\* Most devices run() is given, and the steps every solver is run for.
MaxWorkers == 3

MaxSteps == 2

\* DevicePair::compute from entry to return or abort, as one function.
Compute(devs, brd, acc) ==
  LET r1 == Pass("board", devs, <<>>, brd, acc)
      r2 == Pass("p2p", r1.remaining, r1.pairs, brd, acc)
      r3 == Pass("rest", r2.remaining, r2.pairs, brd, acc)
  IN  IF Len(r3.remaining) # 1
      THEN [pairs |-> r3.pairs, failed |-> "remaining"]
      ELSE LET prs == InsertFront(r3.pairs, DevicePair(NoParent, r3.remaining[1]))
           IN  [pairs |-> prs, failed |-> PostCheck(prs, devs)]

\* The pair lists compute returns for a device list, over every board
\* grouping and every answer to the peer-access queries.
ReturnedFor(devs) ==
  LET all == {Compute(devs, b, a) :
                b \in [Range(devs) -> BoardGroups], a \in SUBSET Queries(devs)}
  IN  {r.pairs : r \in {x \in all : x.failed = "none"}}

\* A slot of syncs: empty (a null shared_ptr) or a constructed worker; the
\* parent is the slot of parent_, 0 for NULL.
EmptySlot == [built |-> FALSE, device |-> NoParent, parent |-> 0]

Worker(dev, par) == [built |-> TRUE, device |-> dev, parent |-> par]

\* The j loop as a slip would have it: every worker is hung under slot 0.
FindParentRoot(sy, dev) == 1

\* The j loop of the construction loop: the last constructed worker whose
\* device id is the wanted parent device, 0 when there is none.
FindParent(sy, dev) ==
  LET J == {j \in 1..Len(sy) : sy[j].built /\ sy[j].device = dev}
  IN  IF J = {} THEN 0 ELSE Max(J)

\* One iteration of the inner i loop: when slot i is empty and its pair's
\* parent has a worker, construct the worker and push it onto the parent's
\* children_.
TryConstruct(sy, ch, i, prs) ==
  LET p == FindParent(sy, prs[i].parent)
  IN  IF sy[i].built \/ p = 0
      THEN [syncs |-> sy, children |-> ch]
      ELSE [syncs |-> [sy EXCEPT ![i] = Worker(prs[i].device, p)],
            children |-> [ch EXCEPT ![p] = Append(@, i)]]

Workers == 1..Len(syncs)

Root == 1

Parent(w) == syncs[w].parent

\* Caffe::solver_count(), set by the caller of run to the number of devices.
SolverCount == Len(devices)

\* A gradient buffer: the bag of local gradients <<worker, step>> summed
\* into it, and the divisor it has been scaled by.
ZeroGrad == [g |-> EmptyBag, den |-> 1]

\* What forward/backward of worker w leaves in diff_ in step n.
LocalGrad(w, n) == [g |-> SetToBag({<<w, n>>}), den |-> 1]

\* cudaMalloc'ed and never written: parent_grads_ before the first copy.
Unwritten == [g |-> SetToBag({<<0, 0>>}), den |-> 1]

\* caffe_gpu_add with the sum dropped: dst = src.
GpuAddOverwrites(src, dst) == [g |-> src.g, den |-> dst.den]

\* caffe_gpu_add(size_, src, dst, dst)
GpuAdd(src, dst) == [g |-> src.g (+) dst.g, den |-> dst.den]

\* caffe_gpu_scal(size_, 1.0 / solver_count, diff_)
GpuScal(count, d) == [g |-> d.g, den |-> d.den * count]

NoToken == [from |-> 0, step |-> 0]

RunInit ==
  /\ devices \in {d \in DeviceLists : Distinct(d) /\ Len(d) <= MaxWorkers}
  /\ pairs \in ReturnedFor(devices)
  /\ board = <<>>
  /\ access = {}
  /\ remaining = <<pairs[1].device>>
  /\ pc = "returned"
  /\ failed = "none"
  /\ rootDevice \in Range(devices)
  /\ nsteps = MaxSteps
  /\ syncs = [k \in 1..Len(devices) |->
                IF k = 1 THEN Worker(rootDevice, 0) ELSE EmptySlot]
  /\ children = [k \in 1..Len(devices) |-> <<>>]
  /\ attempts = 0
  /\ ri = 2
  /\ rpc = "build"
  /\ wpc = [k \in 1..Len(devices) |-> "new"]
  /\ iter = [k \in 1..Len(devices) |-> 0]
  /\ ci = [k \in 1..Len(devices) |-> 0]
  /\ queue = [k \in 1..Len(devices) |-> <<>>]
  /\ data = [k \in 1..Len(devices) |-> 0]
  /\ diff = [k \in 1..Len(devices) |-> ZeroGrad]
  /\ grads = [k \in 1..Len(devices) |-> Unwritten]
  /\ got = [k \in 1..Len(devices) |-> NoToken]
  /\ bcast = [k \in 1..Len(devices) |-> 0]
  /\ wroteLocal = FALSE
  /\ reading = [k \in 1..Len(devices) |-> {}]
  /\ stop = [k \in 1..Len(devices) |-> FALSE]
  /\ order = "none"
  /\ destroyed = [k \in 1..Len(devices) |-> FALSE]
  /\ dangling = FALSE
  /\ MirrorNotEntered
  /\ RerunNotEntered

\* for (i = 1; i < pairs.size(); ++i) { if (!syncs[i].get()) ... }
BuildStep ==
  /\ rpc = "build"
  /\ attempts < Len(pairs)
  /\ ri <= Len(pairs)
  /\ LET r == TryConstruct(syncs, children, ri, pairs)
     IN  syncs' = r.syncs /\ children' = r.children
  /\ ri' = ri + 1
  /\ UNCHANGED <<rootDevice, attempts, rpc, nsteps, stop, order, destroyed, dangling>>
  /\ UNCHANGED <<pairVars, syncVars, mirrorVars, rerunVars>>

\* ++attempts, and the inner loop starts over.
NextAttempt ==
  /\ rpc = "build"
  /\ attempts < Len(pairs)
  /\ ri > Len(pairs)
  /\ attempts' = attempts + 1
  /\ ri' = 2
  /\ UNCHANGED <<rootDevice, syncs, children, rpc, nsteps, stop, order, destroyed, dangling>>
  /\ UNCHANGED <<pairVars, syncVars, mirrorVars, rerunVars>>

\* attempts == pairs.size(): on to the loop that starts the threads.
BuildDone ==
  /\ rpc = "build"
  /\ attempts = Len(pairs)
  /\ rpc' = "start"
  /\ ri' = 2
  /\ UNCHANGED <<rootDevice, syncs, children, attempts, nsteps, stop, order, destroyed, dangling>>
  /\ UNCHANGED <<pairVars, syncVars, mirrorVars, rerunVars>>

\* syncs[i]->StartInternalThread(); an empty slot is a null dereference.
StartThread ==
  /\ rpc = "start"
  /\ ri <= Len(syncs)
  /\ IF syncs[ri].built
     THEN /\ wpc' = [wpc EXCEPT ![ri] = "loop"]
          /\ ri' = ri + 1
          /\ rpc' = rpc
     ELSE /\ rpc' = "crashed"
          /\ UNCHANGED <<wpc, ri>>
  /\ UNCHANGED <<rootDevice, syncs, children, attempts, nsteps, stop, order, destroyed, dangling>>
  /\ UNCHANGED <<iter, ci, queue, data, diff, grads, got, bcast, wroteLocal, reading>>
  /\ UNCHANGED <<pairVars, mirrorVars, rerunVars>>

\* syncs[0]->solver_->Solve() on the calling thread.
RootSolve ==
  /\ rpc = "start"
  /\ ri > Len(syncs)
  /\ rpc' = "solve"
  /\ wpc' = [wpc EXCEPT ![Root] = "loop"]
  /\ UNCHANGED <<rootDevice, syncs, children, attempts, ri, nsteps, stop, order, destroyed, dangling>>
  /\ UNCHANGED <<iter, ci, queue, data, diff, grads, got, bcast, wroteLocal, reading>>
  /\ UNCHANGED <<pairVars, mirrorVars, rerunVars>>

----------------------------------------------------------------------------
(* The threads: Solver::Step calling P2PSync::on_start and                 *)
(* P2PSync::on_gradients_ready around forward/backward and the update.     *)

\* BlockingQueue::push
Push(q, tok) == Append(q, tok)

\* on_gradients_ready that does not wait for the children.
AfterForwardNoWait(w) == IF Parent(w) # 0 THEN "stage" ELSE "scale"

\* on_start that does not wait for the parent.
StepEntryNoWait(w) == IF children[w] # <<>> THEN "copy" ELSE "forward"

\* on_start that leaves out the synchronize-and-copy before the tokens.
AfterRecvNoCopy(w) == IF children[w] # <<>> THEN "push" ELSE "forward"

\* Where on_start goes after the wait for the parent: the copies to the
\* children when there are any, else out of the hook.
AfterRecv(w) == IF children[w] # <<>> THEN "copy" ELSE "forward"

\* Where on_gradients_ready goes after the children's sums: the copy to the
\* parent, or the root's scaling.
AfterReduce(w) == IF Parent(w) # 0 THEN "stage" ELSE "scale"

\* Where on_gradients_ready starts after forward/backward: the sums of the
\* children when there are any.
AfterForward(w) == IF children[w] # <<>> THEN "reduce" ELSE AfterReduce(w)

\* Where a thread is when on_start is entered: at the pop when it has a
\* parent, else past it.
StepEntry(w) == IF Parent(w) # 0 THEN "recv" ELSE AfterRecv(w)

\* The stop signal as a thread sees it: looked at between two steps only.
MustStop(w) == stop[w]

\* The loop test of Solver::Step: steps are left and no stop is asked for.
StepsLeft(w) == iter[w] < nsteps /\ ~MustStop(w)

\* InternalThreadEntry (for the root: Solve): Solver::Step begins, and with
\* it the first step, or Step returns at once when there is no step to run.
EnterStep(w) ==
  /\ wpc[w] = "loop"
  /\ IF StepsLeft(w)
     THEN /\ iter' = [iter EXCEPT ![w] = @ + 1]
          /\ wpc' = [wpc EXCEPT ![w] = StepEntry(w)]
     ELSE /\ iter' = iter
          /\ wpc' = [wpc EXCEPT ![w] = "done"]
  /\ UNCHANGED <<ci, queue, data, diff, grads, got, bcast, wroteLocal, reading>>
  /\ UNCHANGED <<pairVars, runVars, mirrorVars, rerunVars>>

\* on_start that reads the front token and leaves it in the queue.
RecvParentPeek(w) ==
  /\ wpc[w] = "recv"
  /\ queue[w] # <<>>
  /\ got' = [got EXCEPT ![w] = Head(queue[w])]
  /\ wpc' = [wpc EXCEPT ![w] = IF Head(queue[w]).from = Parent(w)
                                THEN AfterRecv(w) ELSE "aborted"]
  /\ UNCHANGED <<iter, ci, queue, data, diff, grads, bcast, wroteLocal, reading>>
  /\ UNCHANGED <<pairVars, runVars, mirrorVars, rerunVars>>

\* on_start: parent = queue_.pop(); CHECK(parent == parent_)
RecvParent(w) ==
  /\ wpc[w] = "recv"
  /\ queue[w] # <<>>
  /\ queue' = [queue EXCEPT ![w] = Tail(@)]
  /\ got' = [got EXCEPT ![w] = Head(queue[w])]
  /\ wpc' = [wpc EXCEPT ![w] = IF Head(queue[w]).from = Parent(w)
                                THEN AfterRecv(w) ELSE "aborted"]
  /\ UNCHANGED <<iter, ci, data, diff, grads, bcast, wroteLocal, reading>>
  /\ UNCHANGED <<pairVars, runVars, mirrorVars, rerunVars>>

\* on_start: cudaMemcpyAsync(children_[i]->data_, data_) for every child.
CopyParams(w) ==
  /\ wpc[w] = "copy"
  /\ wpc' = [wpc EXCEPT ![w] = "sync"]
  /\ UNCHANGED <<iter, ci, queue, data, diff, grads, got, bcast, wroteLocal, reading>>
  /\ UNCHANGED <<pairVars, runVars, mirrorVars, rerunVars>>

\* on_start that waits for its copies only, not for what the worker issued
\* on the stream before them.
SyncParamsCopiesOnly(w) ==
  /\ wpc[w] = "sync"
  /\ data' = [c \in Workers |-> IF c \in Range(children[w]) THEN data[w] ELSE data[c]]
  /\ bcast' = [c \in Workers |-> IF c \in Range(children[w]) THEN iter[w] ELSE bcast[c]]
  /\ wpc' = [wpc EXCEPT ![w] = "push"]
  /\ ci' = [ci EXCEPT ![w] = 0]
  /\ UNCHANGED <<iter, queue, diff, grads, got, wroteLocal, reading>>
  /\ UNCHANGED <<pairVars, runVars, mirrorVars, rerunVars>>

\* on_start: cudaStreamSynchronize: the copies issued have completed, and so
\* has everything issued on the stream before them.
SyncParams(w) ==
  /\ wpc[w] = "sync"
  /\ data' = [c \in Workers |-> IF c \in Range(children[w]) THEN data[w] ELSE data[c]]
  /\ bcast' = [c \in Workers |-> IF c \in Range(children[w]) THEN iter[w] ELSE bcast[c]]
  /\ wpc' = [wpc EXCEPT ![w] = "push"]
  /\ ci' = [ci EXCEPT ![w] = 0]
  /\ reading' = [reading EXCEPT ![w] = {}]
  /\ UNCHANGED <<iter, queue, diff, grads, got, wroteLocal>>
  /\ UNCHANGED <<pairVars, runVars, mirrorVars, rerunVars>>

\* on_start that pushes its token twice onto the child's queue.
PushChildTwice(w) ==
  /\ wpc[w] = "push"
  /\ LET c == children[w][ci[w] + 1]
         t == [from |-> w, step |-> iter[w]]
     IN  queue' = [queue EXCEPT ![c] = Push(Push(@, t), t)]
  /\ ci' = [ci EXCEPT ![w] = @ + 1]
  /\ wpc' = [wpc EXCEPT ![w] = IF ci[w] + 1 = Len(children[w]) THEN "forward" ELSE "push"]
  /\ UNCHANGED <<iter, data, diff, grads, got, bcast, wroteLocal, reading>>
  /\ UNCHANGED <<pairVars, runVars, mirrorVars, rerunVars>>

\* on_start: children_[i]->queue_.push(this)
PushChild(w) ==
  /\ wpc[w] = "push"
  /\ LET c == children[w][ci[w] + 1]
     IN  queue' = [queue EXCEPT ![c] = Push(@, [from |-> w, step |-> iter[w]])]
  /\ ci' = [ci EXCEPT ![w] = @ + 1]
  /\ wpc' = [wpc EXCEPT ![w] = IF ci[w] + 1 = Len(children[w]) THEN "forward" ELSE "push"]
  /\ UNCHANGED <<iter, data, diff, grads, got, bcast, wroteLocal, reading>>
  /\ UNCHANGED <<pairVars, runVars, mirrorVars, rerunVars>>

\* Solver::Step between the hooks: the diffs are cleared and forward/backward
\* leaves this step's local gradient in diff_.
ForwardBackward(w) ==
  /\ wpc[w] = "forward"
  /\ diff' = [diff EXCEPT ![w] = LocalGrad(w, iter[w])]
  /\ ci' = [ci EXCEPT ![w] = 0]
  /\ wpc' = [wpc EXCEPT ![w] = AfterForward(w)]
  /\ UNCHANGED <<iter, queue, data, grads, got, bcast, wroteLocal, reading>>
  /\ UNCHANGED <<pairVars, runVars, mirrorVars, rerunVars>>

\* on_gradients_ready: child = queue_.pop(); diff_ += child->parent_grads_.
\* caffe_gpu_add is issued on the worker's default stream: its read of the
\* child's parent_grads_ is over at the latest at the worker's next
\* cudaStreamSynchronize.
ReduceChild(w) ==
  /\ wpc[w] = "reduce"
  /\ queue[w] # <<>>
  /\ queue' = [queue EXCEPT ![w] = Tail(@)]
  /\ diff' = [diff EXCEPT ![w] = GpuAdd(grads[Head(queue[w]).from], @)]
  /\ reading' = [reading EXCEPT ![w] = @ \cup {Head(queue[w]).from}]
  /\ ci' = [ci EXCEPT ![w] = @ + 1]
  /\ wpc' = [wpc EXCEPT ![w] = IF ci[w] + 1 = Len(children[w])
                                THEN AfterReduce(w) ELSE "reduce"]
  /\ UNCHANGED <<iter, data, grads, got, bcast, wroteLocal>>
  /\ UNCHANGED <<pairVars, runVars, mirrorVars, rerunVars>>

\* on_gradients_ready: cudaMemcpyAsync(parent_grads_, diff_)
StageGrads(w) ==
  /\ wpc[w] = "stage"
  /\ wpc' = [wpc EXCEPT ![w] = "stagesync"]
  /\ UNCHANGED <<iter, ci, queue, data, diff, grads, got, bcast, wroteLocal, reading>>
  /\ UNCHANGED <<pairVars, runVars, mirrorVars, rerunVars>>

\* on_gradients_ready: cudaStreamSynchronize: the staging copy has completed,
\* and so have the adds issued before it.
SyncGrads(w) ==
  /\ wpc[w] = "stagesync"
  /\ grads' = [grads EXCEPT ![w] = diff[w]]
  /\ reading' = [reading EXCEPT ![w] = {}]
  /\ wpc' = [wpc EXCEPT ![w] = "notify"]
  /\ UNCHANGED <<iter, ci, queue, data, diff, got, bcast, wroteLocal>>
  /\ UNCHANGED <<pairVars, runVars, mirrorVars, rerunVars>>

\* on_gradients_ready that leaves out the push to the parent.
NotifyParentSkips(w) ==
  /\ wpc[w] = "notify"
  /\ wpc' = [wpc EXCEPT ![w] = "update"]
  /\ UNCHANGED <<iter, ci, queue, data, diff, grads, got, bcast, wroteLocal, reading>>
  /\ UNCHANGED <<pairVars, runVars, mirrorVars, rerunVars>>

\* The token of on_gradients_ready pushed onto the root's queue instead of
\* the parent's.
NotifyRoot(w) ==
  /\ wpc[w] = "notify"
  /\ queue' = [queue EXCEPT ![Root] = Push(@, [from |-> w, step |-> iter[w]])]
  /\ wpc' = [wpc EXCEPT ![w] = "update"]
  /\ UNCHANGED <<iter, ci, data, diff, grads, got, bcast, wroteLocal, reading>>
  /\ UNCHANGED <<pairVars, runVars, mirrorVars, rerunVars>>

\* on_gradients_ready: parent_->queue_.push(this)
NotifyParent(w) ==
  /\ wpc[w] = "notify"
  /\ queue' = [queue EXCEPT ![Parent(w)] = Push(@, [from |-> w, step |-> iter[w]])]
  /\ wpc' = [wpc EXCEPT ![w] = "update"]
  /\ UNCHANGED <<iter, ci, data, diff, grads, got, bcast, wroteLocal, reading>>
  /\ UNCHANGED <<pairVars, runVars, mirrorVars, rerunVars>>

\* on_gradients_ready, root: caffe_gpu_scal(size_, 1.0 / solver_count, diff_)
ScaleRoot(w) ==
  /\ wpc[w] = "scale"
  /\ diff' = [diff EXCEPT ![w] = GpuScal(SolverCount, @)]
  /\ wpc' = [wpc EXCEPT ![w] = "update"]
  /\ UNCHANGED <<iter, ci, queue, data, grads, got, bcast, wroteLocal, reading>>
  /\ UNCHANGED <<pairVars, runVars, mirrorVars, rerunVars>>

\* Solver::Step after the hooks: the update rule, ++iter_ and the loop
\* test.  The root's update writes the parameters of the next step (version
\* iter); a non-root solver may write its own data_ with values of its own,
\* or leave it alone.  Then the next step's on_start is entered, or Step
\* returns.
ApplyUpdate(w) ==
  /\ wpc[w] = "update"
  /\ \E write \in BOOLEAN :
       /\ w = Root => write
       /\ data' = [data EXCEPT ![w] = IF ~write THEN @
                                      ELSE IF w = Root THEN iter[w] ELSE 0 - 1]
       /\ wroteLocal' = (wroteLocal \/ (write /\ w # Root))
  /\ IF StepsLeft(w)
     THEN /\ iter' = [iter EXCEPT ![w] = @ + 1]
          /\ wpc' = [wpc EXCEPT ![w] = StepEntry(w)]
     ELSE /\ iter' = iter
          /\ wpc' = [wpc EXCEPT ![w] = "done"]
  /\ UNCHANGED <<ci, queue, diff, grads, got, bcast, reading>>
  /\ UNCHANGED <<pairVars, runVars, mirrorVars, rerunVars>>

\* The stop loop entered before the root's Solve has returned.
StopThreadEarly ==
  /\ rpc \in {"solve", "stop"}
  /\ LET i == IF rpc = "solve" THEN 2 ELSE ri
     IN  IF i > Len(syncs)
         THEN rpc' = "returned" /\ ri' = i /\ stop' = stop
         ELSE rpc' = "join" /\ ri' = i /\ stop' = [stop EXCEPT ![i] = TRUE]
  /\ UNCHANGED <<rootDevice, syncs, children, attempts, nsteps, order, destroyed, dangling>>
  /\ UNCHANGED <<pairVars, syncVars, mirrorVars, rerunVars>>

\* run, after Solve returned: syncs[i]->StopInternalThread() signals thread
\* i to stop; past the last slot run returns.
StopThread ==
  /\ rpc \in {"solve", "stop"}
  /\ wpc[Root] = "done"
  /\ LET i == IF rpc = "solve" THEN 2 ELSE ri
     IN  IF i > Len(syncs)
         THEN rpc' = "returned" /\ ri' = i /\ stop' = stop
         ELSE rpc' = "join" /\ ri' = i /\ stop' = [stop EXCEPT ![i] = TRUE]
  /\ UNCHANGED <<rootDevice, syncs, children, attempts, nsteps, order, destroyed, dangling>>
  /\ UNCHANGED <<pairVars, syncVars, mirrorVars, rerunVars>>

\* StopInternalThread, second half: wait for thread i to finish.
JoinThread ==
  /\ rpc = "join"
  /\ wpc[ri] = "done"
  /\ rpc' = "stop"
  /\ ri' = ri + 1
  /\ UNCHANGED <<rootDevice, syncs, children, attempts, nsteps, stop, order, destroyed, dangling>>
  /\ UNCHANGED <<pairVars, syncVars, mirrorVars, rerunVars>>

\* The element orders a vector's destructor may take: first to last, or last
\* to first.
Orders == {"forward", "reverse"}

\* run returns: the vector syncs goes out of scope and destroys its elements.
BeginTeardown ==
  /\ rpc = "returned"
  /\ order' \in Orders
  /\ ri' = IF order' = "forward" THEN 1 ELSE Len(syncs)
  /\ rpc' = "teardown"
  /\ UNCHANGED <<rootDevice, syncs, children, attempts, nsteps, stop, destroyed, dangling>>
  /\ UNCHANGED <<pairVars, syncVars, mirrorVars, rerunVars>>

\* ~P2PSync of a worker whose parent_ is set reads parent_->solver_: a read
\* of a freed object when the parent's slot has been destroyed.
ReadsDestroyed(i) == Parent(i) # 0 /\ destroyed[Parent(i)]

\* The last shared_ptr of slot ri is released: ~P2PSync runs (cudaFree of
\* parent_grads_, parent_->solver_->param().device_id()), then the object is
\* freed.  A read of a freed parent returns what the memory still holds or
\* faults.
DestroyWorker ==
  /\ rpc = "teardown"
  /\ ri \in 1..Len(syncs)
  /\ dangling' = (dangling \/ ReadsDestroyed(ri))
  /\ \E faults \in BOOLEAN :
       /\ faults => ReadsDestroyed(ri)
       /\ IF faults
          THEN rpc' = "faulted" /\ ri' = ri /\ destroyed' = destroyed
          ELSE /\ destroyed' = [destroyed EXCEPT ![ri] = TRUE]
               /\ ri' = IF order = "forward" THEN ri + 1 ELSE ri - 1
               /\ rpc' = IF ri' \in 1..Len(syncs) THEN "teardown" ELSE "gone"
  /\ UNCHANGED <<rootDevice, syncs, children, attempts, nsteps, stop, order>>
  /\ UNCHANGED <<pairVars, syncVars, mirrorVars, rerunVars>>

RunNext ==
  \/ BuildStep
  \/ NextAttempt
  \/ BuildDone
  \/ StartThread
  \/ RootSolve
  \/ StopThread
  \/ JoinThread
  \/ BeginTeardown
  \/ DestroyWorker
  \/ \E w \in Workers : EnterStep(w)
  \/ \E w \in Workers : RecvParent(w)
  \/ \E w \in Workers : CopyParams(w)
  \/ \E w \in Workers : SyncParams(w)
  \/ \E w \in Workers : PushChild(w)
  \/ \E w \in Workers : ForwardBackward(w)
  \/ \E w \in Workers : ReduceChild(w)
  \/ \E w \in Workers : StageGrads(w)
  \/ \E w \in Workers : SyncGrads(w)
  \/ \E w \in Workers : NotifyParent(w)
  \/ \E w \in Workers : ScaleRoot(w)
  \/ \E w \in Workers : ApplyUpdate(w)

SpecRun == RunInit /\ [][RunNext]_vars

----------------------------------------------------------------------------
(* Claims about P2PSync::run and the step protocol, checked under SpecRun. *)

\* The root solver runs on the first device of the list, which compute
\* makes the root of the pair list.
RootOnFirst == rootDevice = pairs[1].device

\* The slots whose children_ list holds slot i, counted with repetition.
Listings(i) ==
  {x \in Workers \X (1..MaxDevices) :
     x[2] <= Len(children[x[1]]) /\ children[x[1]][x[2]] = i}

\* C10: for a pair list compute returned and a root solver on its root
\* device, a worker is constructed only when its parent's worker exists, its
\* parent_ is the worker of its pair's parent device and it is listed once,
\* in that parent's children_ only; when the construction loop is over no
\* slot is empty.
C10_TreeBuilt ==
  RootOnFirst =>
    /\ syncs[Root] = Worker(pairs[1].device, 0)
    /\ \A i \in Workers \ {Root} :
         IF syncs[i].built
         THEN /\ syncs[i].device = pairs[i].device
              /\ syncs[i].parent \in Workers \ {i}
              /\ syncs[syncs[i].parent].built
              /\ syncs[syncs[i].parent].device = pairs[i].parent
              /\ Cardinality(Listings(i)) = 1
              /\ \A x \in Listings(i) : x[1] = syncs[i].parent
         ELSE Listings(i) = {}
    /\ Listings(Root) = {}
    /\ rpc # "build" => \A i \in Workers : syncs[i].built
    /\ rpc # "crashed"

\* The construction loop is over for 3 devices whose second pair hangs under
\* the device of the third: slot 2 had to wait for slot 3.
C10_Witness ==
  /\ RootOnFirst
  /\ rpc = "start"
  /\ Len(pairs) = 3
  /\ pairs[2].parent = pairs[3].device
  /\ \A i \in Workers : syncs[i].built

\* The step in which worker w is, once inside it.
InStep(w) == wpc[w] \notin {"new", "loop", "done", "aborted"}

AllSteps(n) == [g |-> SetToBag({<<w, n>> : w \in Workers}), den |-> SolverCount]

\* C2: when the root has finished on_gradients_ready of step N its diff_ is
\* the sum of the step-N local gradients of all workers, each once, divided
\* by the number of workers.
C2_RootGradient ==
  wpc[Root] = "update" => diff[Root] = AllSteps(iter[Root])

\* A gradient buffer's numerator when worker w's local gradient is the
\* number w in every element: 1, 2, 3 for three workers.
RECURSIVE SumOver(_, _)
SumOver(S, b) ==
  IF S = {} THEN 0
  ELSE LET x == CHOOSE y \in S : TRUE
       IN  x[1] * CopiesIn(x, b) + SumOver(S \ {x}, b)

\* The root of 3 workers has finished on_gradients_ready of its second step:
\* with local gradients 1, 2 and 3 its diff_ is 6 / 3 = 2.
C2_Witness ==
  /\ wpc[Root] = "update"
  /\ iter[Root] = 2
  /\ Len(syncs) = 3
  /\ diff[Root].den = 3
  /\ BagCardinality(diff[Root].g) = 3
  /\ SumOver(BagToSet(diff[Root].g), diff[Root].g) = 2 * diff[Root].den

\* C3: a non-root worker that is past the wait of on_start in step N (so also
\* one that copies to or pushes tokens to its children for step N) has popped
\* the token its parent pushed in the parent's on_start of step N.
C3_BroadcastAfterReceive ==
  \A w \in Workers :
    (Parent(w) # 0 /\ InStep(w) /\ wpc[w] # "recv") =>
       got[w] = [from |-> Parent(w), step |-> iter[w]]

\* A worker with a parent and a child pushes its tokens for its second step.
C3_Witness ==
  \E w \in Workers :
    /\ Parent(w) # 0
    /\ children[w] # <<>>
    /\ wpc[w] = "push"
    /\ iter[w] = 2

RECURSIVE Subtree(_)
Subtree(w) == {w} \cup UNION {Subtree(children[w][k]) : k \in 1..Len(children[w])}

\* C4: along every parent/child edge the numbers of steps entered differ by
\* at most one, and a worker is at its reduction-up of step N (the copy and
\* token to its parent, the root's scaling) only with the step-N gradients
\* of all the workers below it summed into its diff_.
C4_StepSynchronous ==
  \A w \in Workers :
    /\ Parent(w) # 0 =>
         /\ iter[w] - iter[Parent(w)] <= 1
         /\ iter[Parent(w)] - iter[w] <= 1
    /\ wpc[w] \in {"stage", "stagesync", "notify", "scale"} =>
         diff[w] = [g |-> SetToBag({<<x, iter[w]>> : x \in Subtree(w)}), den |-> 1]

\* A child has entered the next step while its parent, with children summed
\* in, is at its own reduction-up.
C4_Witness ==
  \E w \in Workers :
    /\ Parent(w) # 0
    /\ iter[w] = iter[Parent(w)] + 1
    /\ wpc[Parent(w)] \in {"stage", "scale"}

\* Parameters at the return from on_start of step N: what the root's data_
\* held at the root's on_start of step N, the version written by update N-1.
ParamsOfStep(w) == wpc[w] = "forward" => data[w] = iter[w] - 1

\* A parent token of step N is in a child's queue, or has been popped by the
\* child, only with the parent's copy of step N completed into the child's
\* data_.
CopyBeforeToken(w) ==
  /\ \A k \in 1..Len(queue[w]) :
       queue[w][k].from = Parent(w) => queue[w][k].step <= bcast[w]
  /\ (Parent(w) # 0 /\ InStep(w) /\ wpc[w] # "recv") => iter[w] <= bcast[w]

\* Between issuing the copies and pushing the last token a worker's data_
\* does not change.
StableWhileBroadcasting(w) ==
  (wpc[w] \in {"sync", "push"}) => data'[w] = data[w]

C6_OneTokenPerSender ==
  \A w \in Workers : \A a, b \in 1..Len(queue[w]) :
    a # b => queue[w][a].from # queue[w][b].from

\* The tokens of two children wait in their parent's queue.
C6_Witness ==
  \E w \in Workers : Len(queue[w]) = 2 /\ wpc[w] = "reduce"

----------------------------------------------------------------------------
(* apply_buffers: the walk over a tensor list that GPUParams' constructor  *)
(* (copy) and GPUParams::configure (replace_gpu, replace_gpu_diff) make.   *)

\* Longest tensor list, and the largest element count of one tensor.
MaxBlobs == 3

MaxCount == 4

Ops == {"copy", "replace_cpu", "replace_gpu", "replace_cpu_diff", "replace_gpu_diff"}

\* total_size(params) over the first n tensors: the sum of their counts.
RECURSIVE SumCounts(_, _)
SumCounts(counts, n) == IF n = 0 THEN 0 ELSE SumCounts(counts, n - 1) + counts[n]

\* CHECK_EQ as a check that lets a buffer larger than the tensors pass.
TotalFits(total, end) == total >= end

\* CHECK_EQ(total_size, ptr - buffer)
TotalMatches(total, end) == total = end

\* caffe_copy(size, blob i's values, ptr): the elements of the buffer from
\* offset at on take the values of tensor i; what falls past the end of the
\* allocation is not in the buffer.
CopyIn(buf, i, at, size) ==
  [c \in DOMAIN buf |-> IF at <= c /\ c < at + size THEN i ELSE buf[c]]

MirrorInit ==
  /\ blobs \in UNION {[1..n -> 0..MaxCount] : n \in 0..MaxBlobs}
  /\ total_size \in 0..(MaxBlobs * MaxCount)
  /\ op \in Ops
  /\ bi = 0
  /\ ptr = 0
  /\ placed = <<>>
  /\ buffer = [c \in 0..(total_size - 1) |-> 0]
  /\ overrun = FALSE
  /\ mpc = "loop"
  /\ devices = <<>>
  /\ board = <<>>
  /\ access = {}
  /\ remaining = <<>>
  /\ pairs = <<>>
  /\ pc = "off"
  /\ failed = "none"
  /\ RunNotEntered
  /\ RerunNotEntered

\* One iteration of the loop: tensor i is copied to, or rewired to, ptr and
\* ptr moves on by its count.  A copy that runs past the allocation either
\* fails in the device call, which is fatal, or writes outside the buffer.
ApplyBlob ==
  /\ mpc = "loop"
  /\ bi < Len(blobs)
  /\ LET size == blobs[bi + 1]
         past == op = "copy" /\ ptr + size > total_size
     IN  /\ placed' = Append(placed, ptr)
         /\ buffer' = IF op = "copy" THEN CopyIn(buffer, bi + 1, ptr, size) ELSE buffer
         /\ overrun' = (overrun \/ past)
         /\ ptr' = ptr + size
         /\ \E faults \in BOOLEAN :
              /\ faults => past
              /\ mpc' = IF faults THEN "faulted" ELSE "loop"
  /\ bi' = bi + 1
  /\ UNCHANGED <<blobs, total_size, op>>
  /\ UNCHANGED <<pairVars, runVars, syncVars, rerunVars>>

\* After the loop: CHECK_EQ(total_size, ptr - buffer).
CheckTotal ==
  /\ mpc = "loop"
  /\ bi = Len(blobs)
  /\ mpc' = IF TotalMatches(total_size, ptr) THEN "done" ELSE "aborted"
  /\ UNCHANGED <<blobs, total_size, op, bi, ptr, placed, buffer, overrun>>
  /\ UNCHANGED <<pairVars, runVars, syncVars, rerunVars>>

MirrorNext ==
  \/ ApplyBlob
  \/ CheckTotal

SpecMirror == MirrorInit /\ [][MirrorNext]_vars

\* The elements tensor i was given.
Region(i) == {c \in 0..(MaxBlobs * MaxCount + MaxCount) :
                placed[i] <= c /\ c < placed[i] + blobs[i]}

\* C11: a mirror operation completes only when the counts of the tensors sum
\* to the buffer size, and then tensor i sits at the sum of the counts before
\* it, the tensors' regions are disjoint and together are the buffer (for the
\* copy: every element holds the tensor of its region); when the sum differs
\* from the buffer size the operation does not complete, it ends in a fatal
\* check (the size check, or the failed device copy when the tensors run past
\* the buffer); with equal sizes no check fires.
C11_MirrorLayout ==
  LET sum == SumCounts(blobs, Len(blobs))
  IN  /\ mpc = "done" =>
            /\ sum = total_size
            /\ Len(placed) = Len(blobs)
            /\ \A i \in 1..Len(blobs) : placed[i] = SumCounts(blobs, i - 1)
            /\ \A i, j \in 1..Len(blobs) : i # j => Region(i) \cap Region(j) = {}
            /\ UNION {Region(i) : i \in 1..Len(blobs)} = 0..(total_size - 1)
            /\ ~overrun
            /\ op = "copy" => \A i \in 1..Len(blobs) : \A c \in Region(i) : buffer[c] = i
      /\ sum # total_size => mpc \in {"loop", "aborted", "faulted"}
      /\ sum = total_size => mpc \in {"loop", "done"}
      /\ mpc = "faulted" => sum > total_size

\* The copy-in of tensors of 4, 4 and 2 elements into a buffer of 12 has
\* ended in the size check.
C11_Witness ==
  /\ op = "copy"
  /\ blobs = <<4, 4, 2>>
  /\ total_size = 12
  /\ mpc = "aborted"

\* The rewiring of three tensors has completed.
C11_Completed ==
  /\ op = "replace_gpu_diff"
  /\ Len(blobs) = 3
  /\ total_size = 10
  /\ mpc = "done"

----------------------------------------------------------------------------
(* Further claims about DevicePair::compute, under Spec.                   *)

\* The pairing passes of compute: board, P2P, remaining.
Passes == 3

\* C17: no pass erases the first element of remaining, which stays the first
\* device of the input list; so once the root pair is inserted, and whenever
\* compute returns, the first pair is (-1, first input device).
C17_RootIsFirstDevice ==
  /\ Len(remaining) >= 1
  /\ remaining[1] = devices[1]
  /\ pc \in {"post", "returned"} =>
       /\ pairs[1] = DevicePair(NoParent, devices[1])
       /\ \A k \in 2..Len(pairs) : pairs[k].parent # NoParent

\* compute has returned for 4 devices, the first of them a parent in the
\* last two passes.
C17_Witness ==
  /\ pc = "returned"
  /\ Len(devices) = 4
  /\ pairs[1].device = devices[1]
  /\ Cardinality({k \in 1..Len(pairs) : pairs[k].parent = devices[1]}) = 2

\* Following parent links from device d, the pair without a parent is
\* reached in at most n links.
RECURSIVE RootWithin(_, _, _)
RootWithin(prs, d, n) ==
  LET P == {k \in 1..Len(prs) : prs[k].device = d}
  IN  /\ P # {}
      /\ LET p == prs[CHOOSE k \in P : TRUE].parent
         IN  p = NoParent \/ (n > 0 /\ RootWithin(prs, p, n - 1))

----------------------------------------------------------------------------
(* Further claims about P2PSync::run and the step protocol, under SpecRun. *)

\* C12: a thread is signalled to stop only after the root's loop has ended,
\* and then it is at the end of its last step (in the update, or already out
\* of the loop) with all its steps entered; from the signal on it enters no
\* further step and is not taken out of the step it is in: it goes from the
\* update to the exit, and run() waits for exactly that.
C12_StopAtStepBoundary ==
  /\ [](\A w \in Workers :
          /\ stop[w] =>
               /\ w # Root
               /\ wpc[Root] = "done"
               /\ wpc[w] \in {"update", "done"}
               /\ iter[w] = nsteps
          /\ (rpc \in {"stop", "returned"} /\ w # Root /\ w < ri) => wpc[w] = "done")
  /\ [][\A w \in Workers :
          stop[w] => /\ iter'[w] = iter[w]
                     /\ wpc'[w] \in {wpc[w], "done"}
                     /\ (wpc'[w] # wpc[w]) => wpc[w] = "update"]_vars

\* A thread is signalled while it is still in the update of its last step.
C12_Witness ==
  \E w \in Workers : stop[w] /\ wpc[w] = "update" /\ rpc = "join" /\ ri = w

----------------------------------------------------------------------------
(* DevicePair::compute called twice on one device list, each call with its *)
(* own empty pair list, the two calls interleaved in every way.            *)

\* Longest device list compute is called twice on.
MaxRerun == 3

TwiceInit ==
  /\ devices \in {d \in DeviceLists : Len(d) <= MaxRerun}
  /\ board \in [Range(devices) -> BoardGroups]
  /\ access \in SUBSET Queries(devices)
  /\ remaining = devices
  /\ pairs = <<>>
  /\ pc = "board"
  /\ failed = "none"
  /\ rerun = [remaining |-> devices, pairs |-> <<>>, pc |-> "board", failed |-> "none"]
  /\ RunNotEntered
  /\ MirrorNotEntered

\* The second call: a pairing pass of the given kind.
RerunPass(kind, next) ==
  /\ rerun.pc = kind
  /\ LET r == Pass(kind, rerun.remaining, rerun.pairs, board, access)
     IN  rerun' = [rerun EXCEPT !.remaining = r.remaining, !.pairs = r.pairs, !.pc = next]
  /\ UNCHANGED <<pairVars, runVars, syncVars, mirrorVars>>

RerunByBoard == RerunPass("board", "p2p")

RerunByP2P == RerunPass("p2p", "rest")

RerunRemaining == RerunPass("rest", "root")

\* The second call: CHECK_EQ(remaining.size(), 1) and the root pair.
RerunInsertRoot ==
  /\ rerun.pc = "root"
  /\ rerun' = IF Len(rerun.remaining) = 1
              THEN [rerun EXCEPT !.pairs = InsertFront(@, DevicePair(NoParent, rerun.remaining[1])),
                                 !.pc = "post"]
              ELSE [rerun EXCEPT !.pc = "aborted", !.failed = "remaining"]
  /\ UNCHANGED <<pairVars, runVars, syncVars, mirrorVars>>

\* The second call: the post-condition checks.
RerunCheckPairs ==
  /\ rerun.pc = "post"
  /\ LET f == PostCheck(rerun.pairs, devices)
     IN  rerun' = [rerun EXCEPT !.failed = f,
                                !.pc = IF f = "none" THEN "returned" ELSE "aborted"]
  /\ UNCHANGED <<pairVars, runVars, syncVars, mirrorVars>>

TwiceNext ==
  \/ PairByBoard
  \/ PairByP2P
  \/ PairRemaining
  \/ InsertRoot
  \/ CheckPairs
  \/ RerunByBoard
  \/ RerunByP2P
  \/ RerunRemaining
  \/ RerunInsertRoot
  \/ RerunCheckPairs

SpecTwice == TwiceInit /\ [][TwiceNext]_vars

Ended(p) == p \in {"returned", "aborted"}

C13_BothAbort == pc = "aborted" /\ rerun.pc = "aborted"

\* Worker w pops a token in on_gradients_ready in this step.
PopsChild(w) == wpc[w] = "reduce" /\ ci'[w] = ci[w] + 1

\* Worker w pops a token in on_start in this step.
PopsParent(w) == wpc[w] = "recv" /\ wpc'[w] # "recv"

\* C14: the token on_start pops is the worker's parent, so CHECK(parent ==
\* parent_) never fires; every token on_gradients_ready pops is one of the
\* worker's children, of the step the worker is in and not summed in before
\* in that step; no queue holds a token of the parent and a token of a child
\* together.
C14_TokensInOrder ==
  /\ [](\A w \in Workers :
          /\ wpc[w] # "aborted"
          /\ ~\E a, b \in 1..Len(queue[w]) :
                /\ queue[w][a].from = Parent(w)
                /\ queue[w][b].from \in Range(children[w]))
  /\ [][\A w \in Workers :
          /\ PopsParent(w) => Head(queue[w]).from = Parent(w)
          /\ PopsChild(w) =>
               /\ Head(queue[w]).from \in Range(children[w])
               /\ Head(queue[w]).step = iter[w]
               /\ CopiesIn(<<Head(queue[w]).from, iter[w]>>, diff[w].g) = 0]_vars

\* A worker with a parent and a child has popped its child's token of the
\* second step.
C14_Witness ==
  \E w \in Workers :
    /\ Parent(w) # 0
    /\ children[w] # <<>>
    /\ wpc[w] = "stage"
    /\ iter[w] = 2

\* The copy of worker c into its parent_grads_ is in flight: issued and not
\* yet synchronized.
Staging(c) == wpc[c] = "stagesync"

\* The sum of the step-n local gradients of the workers at and below c.
SubtreeGrad(c, n) == [g |-> SetToBag({<<x, n>> : x \in Subtree(c)}), den |-> 1]

\* C16: while a child's copy into its parent_grads_ is in flight, no add of
\* its parent that reads that buffer is outstanding, the parent has popped
\* the child's token of the step before and has not read the buffer for this
\* step; and when the parent pops a child's token and reads its
\* parent_grads_, the child is not copying and the buffer holds what the
\* child staged for the parent's step.
C16_StagingRaceFree ==
  /\ [](\A c \in Workers : (Parent(c) # 0 /\ Staging(c)) =>
          /\ c \notin reading[Parent(c)]
          /\ \A k \in 1..Len(queue[Parent(c)]) : queue[Parent(c)][k].from # c
          /\ iter[Parent(c)] = iter[c]
          /\ wpc[Parent(c)] \in {"push", "forward", "reduce"}
          /\ wpc[Parent(c)] = "reduce" => CopiesIn(<<c, iter[c]>>, diff[Parent(c)].g) = 0)
  /\ [][\A w \in Workers : PopsChild(w) =>
          LET c == Head(queue[w]).from
          IN  /\ wpc[c] \notin {"stage", "stagesync", "notify"}
              /\ grads[c] = SubtreeGrad(c, iter[w])]_vars

\* A child stages its gradients of the second step: its parent's adds of the
\* first step are over.
C16_Witness ==
  \E c \in Workers :
    /\ Parent(c) # 0
    /\ Staging(c)
    /\ iter[c] = 2
    /\ reading[Parent(c)] = {}
    /\ grads[c] = SubtreeGrad(c, 1)

\* C19: from the moment the root has completed on_gradients_ready of a step
\* until its next on_start, and after its last step for good, every queue
\* is empty: every token of the step has been popped.
C19_QueuesDrained ==
  wpc[Root] \in {"update", "done"} => \A w \in Workers : queue[w] = <<>>

\* The root of 3 workers has completed on_gradients_ready of its second
\* step; the tokens of two steps have gone through the queues.
C19_Witness ==
  /\ wpc[Root] = "update"
  /\ iter[Root] = 2
  /\ Len(syncs) = 3
  /\ \A w \in Workers \ {Root} : got[w].step = 2
  /\ \A w \in Workers : queue[w] = <<>>

\* C20 (as claimed): when syncs is torn down in index order no destructor
\* reads parent_->solver_ of a worker that has been destroyed (and none frees
\* its parent_grads_ after its parent is gone), so the teardown does not
\* fault either.
C20_ParentOutlivesChild ==
  order = "forward" => (~dangling /\ rpc # "faulted")

\* The destructor of a worker below the root has run, in index order, after
\* the root's.
C20_ReadAfterDestroy ==
  /\ order = "forward"
  /\ rpc = "gone"
  /\ dangling
  /\ \A w \in Workers : destroyed[w]

----------------------------------------------------------------------------
(* Progress: run() and the threads under fair scheduling.                  *)

\* Fair scheduling at its weakest: as long as some thread can take a step,
\* some thread does.  (A thread that can take a step can take it until it
\* does: other threads only add tokens to its queue.)
SpecRunFair == RunInit /\ [][RunNext]_vars /\ WF_vars(RunNext)

\* The construction loop has left no slot empty and the threads are about
\* to be started.
TreeBuilt == rpc = "start" /\ \A i \in Workers : syncs[i].built

\* Every worker has run all its steps, every thread has ended and been
\* joined, and run() has returned.
AllFinished ==
  /\ rpc \in {"returned", "teardown", "gone", "faulted"}
  /\ \A w \in Workers : wpc[w] = "done" /\ iter[w] = nsteps

\* C15: once run() has built a tree, under fair scheduling every worker
\* completes all its steps, the root's Solve returns, every thread ends and
\* run() joins it and returns: no pop blocks for ever.
C15_NoDeadlock == TreeBuilt ~> AllFinished

\* run() has returned from a tree of 3 workers, all steps done.
C15_Witness ==
  /\ rpc = "returned"
  /\ Len(syncs) = 3
  /\ \A w \in Workers : wpc[w] = "done" /\ iter[w] = nsteps /\ queue[w] = <<>>

====
